---- MODULE Spec2Model ----
(***************************************************************************)
(* prom-label-proxy: a reverse proxy that enforces a tenant label on the   *)
(* requests it forwards to a Prometheus / Alertmanager upstream and on the *)
(* responses it returns.                                                   *)
(*                                                                         *)
(* The module models                                                       *)
(*   - the PromQL enforcer (PromQLEnforcer, SetRecursive),                 *)
(*   - the two revisions of the route dispatcher kept in routes.go         *)
(*     (the ServeMux revision and the forwarders-map revision),            *)
(*   - the silence guard of silences.go,                                   *)
(*   - the response filters of rules.go,                                   *)
(*   - the check of the passthrough list when the routes are built,        *)
(*   - requests served side by side, a client that goes away and another   *)
(*     writer on the upstream.                                             *)
(***************************************************************************)
EXTENDS Integers, Sequences, FiniteSets, TLC

VARIABLES
    \* ---- enforcer inputs and result (specification SpecEnforce)
    targets,        \* the label matchers of the selector being enforced
    enforcer,       \* the PromQLEnforcer: [labelMatchers, errorOnReplace]
    order,          \* iteration order of the labelMatchers map
    enforced,       \* result of EnforceMatchers: [err, res], or NotRun
    rewritten,      \* result of Enforce on the query up{targets}: [err, text]
    rewrittenAgain, \* result of Enforce on the text of rewritten
    \* ---- silence list filter (specification SpecFilterSilences)
    upstreamSilences, \* the silences of an upstream GET /api/v2/silences body
    filteredSilences, \* result of filterSilencesFromResp, or NotFiltered
    \* ---- construction of the routes (specification SpecPassthrough)
    passthroughPaths, \* the passthrough list handed to NewRoutes
    built,            \* what NewRoutes returned: [err, patterns], or NotBuilt
    \* ---- requests served side by side (specification SpecConcurrent)
    inflight,       \* per request: its context, position, exchange and response
    \* ---- proxy pipeline (specification Spec)
    cfg,            \* immutable configuration of the routes
    req,            \* the inbound client request
    lvalues,        \* the label values stored in the request context
    pc,             \* position of the request in the pipeline
    pending,        \* what the handler does once the silence fetch returns
    fetched,        \* what getSilenceByID returned: [err, sil]
    upstreamLog,    \* requests that reached the upstream, in order
    upstreamResp,   \* the upstream's answer to the forwarded request
    silenceStore,   \* the silences held by the upstream Alertmanager
    ctx,            \* the request context: done once the client has gone
    resp            \* the response written to the client

vars == <<targets, enforcer, order, enforced, rewritten, rewrittenAgain,
          upstreamSilences, filteredSilences, passthroughPaths, built, inflight,
          cfg, req, lvalues, pc, pending, fetched, upstreamLog, upstreamResp,
          silenceStore, ctx, resp>>

enforceVars == <<targets, enforcer, order, enforced, rewritten, rewrittenAgain>>
filterVars == <<upstreamSilences, filteredSilences>>
routesVars == <<passthroughPaths, built>>
proxyVars == <<cfg, req, lvalues, pc, pending, fetched, upstreamLog, upstreamResp,
               silenceStore, ctx, resp>>

(***************************************************************************)
(* Bounds.                                                                 *)
(***************************************************************************)
MaxMatchers == 2        \* matchers per selector given to EnforceMatchers
MaxSelectors == 2       \* match[] parameters of a request
MaxFilters == 2         \* filter parameters of a request
MaxSilenceMatchers == 2 \* matchers of a silence
MaxAlerts == 2          \* alerts of an upstream response
MaxRules == 2           \* rules of a rule group
MaxGroups == 1          \* rule groups of an upstream response
MaxSilences == 1        \* silences of an upstream GET /api/v2/silences body

(***************************************************************************)
(* Label matchers.                                                         *)
(***************************************************************************)
proxyLabel == "namespace"
otherLabel == "job"

MatchEqual == "="
MatchNotEqual == "!="
MatchRegexp == "=~"
MatchNotRegexp == "!~"
MatchTypes == {MatchEqual, MatchNotEqual, MatchRegexp, MatchNotRegexp}

Matcher(n, t, v) == [name |-> n, type |-> t, value |-> v]

\* labels.Matcher.String(): name, operator and quoted value; two matchers
\* print alike exactly when the three agree.
MatcherString(m) == <<m.name, m.type, m.value>>

SeqsUpTo(S, n) == UNION {[1..k -> S] : k \in 0..n}

RECURSIVE SeqFilter(_, _)
SeqFilter(s, keep) ==
    IF s = <<>> THEN <<>>
    ELSE IF keep[1] THEN <<Head(s)>> \o SeqFilter(Tail(s), Tail(keep))
         ELSE SeqFilter(Tail(s), Tail(keep))

Range(s) == {s[i] : i \in DOMAIN s}

(***************************************************************************)
(* PromQLEnforcer.                                                         *)
(***************************************************************************)
ErrNone == "none"
ErrQueryParse == "failed to parse query string"
ErrIllegalLabelMatcher == "conflicting label matcher"
ErrEnforceLabel == "failed to enforce label"

\* NewPromQLEnforcer: the matchers are kept in a map keyed by label name.
NewPromQLEnforcer(errorOnReplace, ms) ==
    [labelMatchers |-> ms, errorOnReplace |-> errorOnReplace]

\* (mutant) the conflict test compares the values and forgets the operator
conflictsByValue(e, target) ==
    /\ target.name \in DOMAIN e.labelMatchers
    /\ e.errorOnReplace
    /\ e.labelMatchers[target.name].value # target.value

\* errorOnReplace rejects a target whose name is enforced and which prints
\* differently from the enforced matcher
conflicts(e, target) ==
    /\ target.name \in DOMAIN e.labelMatchers
    /\ e.errorOnReplace
    /\ MatcherString(e.labelMatchers[target.name]) # MatcherString(target)

\* the first target, in order, that errorOnReplace rejects (0 if none)
RECURSIVE FirstConflict(_, _, _)
FirstConflict(e, ts, i) ==
    IF i > Len(ts) THEN 0
    ELSE IF conflicts(e, ts[i]) THEN i
    ELSE FirstConflict(e, ts, i + 1)

\* (mutant) no target is ever dropped
KeepTargetAlways(e, t) == TRUE

\* (mutant) a target is dropped whenever a matcher is enforced on its name
KeepTargetUnlessEnforced(e, t) == t.name \notin DOMAIN e.labelMatchers

\* a target is dropped when an equal matcher is enforced on its name
KeepTarget(e, t) ==
    ~ (/\ t.name \in DOMAIN e.labelMatchers
       /\ e.labelMatchers[t.name].type = MatchEqual)

KeptTargets(e, ts) == SeqFilter(ts, [i \in DOMAIN ts |-> KeepTarget(e, ts[i])])

\* EnforceMatchers; ord is the order in which the map is iterated.
EnforceMatchers(e, ts, ord) ==
    LET c == FirstConflict(e, ts, 1) IN
    IF c # 0
    THEN [err |-> ErrIllegalLabelMatcher, res |-> KeptTargets(e, SubSeq(ts, 1, c - 1))]
    ELSE [err |-> ErrNone,
          res |-> KeptTargets(e, ts) \o [i \in DOMAIN ord |-> e.labelMatchers[ord[i]]]]

\* the iteration orders of a map
MapOrders(m) ==
    {o \in [1..Cardinality(DOMAIN m) -> DOMAIN m] : Range(o) = DOMAIN m}

(***************************************************************************)
(* PromQL expressions.  A query text is the expression it parses to; the   *)
(* texts that do not parse are InvalidText ("up +") and EmptyText ("").     *)
(***************************************************************************)
VectorSelector(n, ms) == [kind |-> "VectorSelector", name |-> n, matchers |-> ms]
MatrixSelector(vs) == [kind |-> "MatrixSelector", vs |-> vs]
BinaryExpr(l, r) == [kind |-> "BinaryExpr", lhs |-> l, rhs |-> r]
Call(f, as) == [kind |-> "Call", func |-> f, args |-> as]
AggregateExpr(x) == [kind |-> "AggregateExpr", expr |-> x]
NumberLiteral == [kind |-> "NumberLiteral"]
InvalidText == [kind |-> "Invalid"]
EmptyText == [kind |-> "Empty"]

WrapperKinds == {"AggregateExpr", "ParenExpr", "UnaryExpr", "SubqueryExpr", "EvalStmt"}

\* parser.ParseExpr
ParseExpr(text) ==
    IF text.kind \in {"Invalid", "Empty"}
    THEN [err |-> ErrQueryParse, node |-> text]
    ELSE [err |-> ErrNone, node |-> text]

\* the label matcher lists of all the selectors of an expression
RECURSIVE Selectors(_)
Selectors(n) ==
    CASE n.kind = "VectorSelector" -> {n.matchers}
      [] n.kind = "MatrixSelector" -> {n.vs.matchers}
      [] n.kind = "BinaryExpr" -> Selectors(n.lhs) \cup Selectors(n.rhs)
      [] n.kind = "Call" -> UNION {Selectors(n.args[i]) : i \in DOMAIN n.args}
      [] n.kind \in WrapperKinds -> Selectors(n.expr)
      [] OTHER -> {}

\* EnforceNode walks the node and enforces the matchers on every selector;
\* the walk stops at the first error.
RECURSIVE EnforceNode(_, _, _)
RECURSIVE EnforceExpressions(_, _, _)
EnforceExpressions(e, as, ord) ==
    IF as = <<>> THEN [err |-> ErrNone, nodes |-> <<>>]
    ELSE LET h == EnforceNode(e, Head(as), ord) IN
         IF h.err # ErrNone THEN [err |-> h.err, nodes |-> as]
         ELSE LET t == EnforceExpressions(e, Tail(as), ord) IN
              [err |-> t.err, nodes |-> <<h.node>> \o t.nodes]

EnforceNode(e, n, ord) ==
    CASE n.kind = "VectorSelector" ->
            LET r == EnforceMatchers(e, n.matchers, ord) IN
            [err |-> r.err, node |-> [n EXCEPT !.matchers = r.res]]
      [] n.kind = "MatrixSelector" ->
            LET r == EnforceMatchers(e, n.vs.matchers, ord) IN
            [err |-> r.err, node |-> [n EXCEPT !.vs.matchers = r.res]]
      [] n.kind = "BinaryExpr" ->
            LET l == EnforceNode(e, n.lhs, ord) IN
            IF l.err # ErrNone THEN [err |-> l.err, node |-> n]
            ELSE LET r == EnforceNode(e, n.rhs, ord) IN
                 [err |-> r.err, node |-> [n EXCEPT !.lhs = l.node, !.rhs = r.node]]
      [] n.kind = "Call" ->
            LET r == EnforceExpressions(e, n.args, ord) IN
            [err |-> r.err, node |-> [n EXCEPT !.args = r.nodes]]
      [] n.kind \in WrapperKinds ->
            LET r == EnforceNode(e, n.expr, ord) IN
            [err |-> r.err, node |-> [n EXCEPT !.expr = r.node]]
      [] OTHER -> [err |-> ErrNone, node |-> n]

\* PromQLEnforcer.Enforce: parse, enforce, print.
Enforce(e, text, ord) ==
    LET p == ParseExpr(text) IN
    IF p.err # ErrNone THEN [err |-> ErrQueryParse, text |-> EmptyText]
    ELSE LET r == EnforceNode(e, p.node, ord) IN
         IF r.err # ErrNone THEN [err |-> r.err, text |-> EmptyText]
         ELSE [err |-> ErrNone, text |-> r.node]

(***************************************************************************)
(* inject.go: the enforcement of the forwarders-map revision.              *)
(***************************************************************************)
enforceLabelMatcher(ms, enforcedMatcher) ==
    SeqFilter(ms, [i \in DOMAIN ms |-> ms[i].name # enforcedMatcher.name])
        \o <<enforcedMatcher>>

\* every round starts again from the original matchers: the last one wins
enforceLabelMatchers(ms, matchersToEnforce) ==
    IF matchersToEnforce = <<>> THEN <<>>
    ELSE enforceLabelMatcher(ms, matchersToEnforce[Len(matchersToEnforce)])

RECURSIVE SetRecursive(_, _)
SetRecursive(n, matchersToEnforce) ==
    CASE n.kind = "VectorSelector" ->
            [n EXCEPT !.matchers = enforceLabelMatchers(@, matchersToEnforce)]
      [] n.kind = "MatrixSelector" ->
            [n EXCEPT !.vs.matchers = enforceLabelMatchers(@, matchersToEnforce)]
      [] n.kind = "BinaryExpr" ->
            [n EXCEPT !.lhs = SetRecursive(@, matchersToEnforce),
                      !.rhs = SetRecursive(@, matchersToEnforce)]
      [] n.kind = "Call" ->
            [n EXCEPT !.args = [i \in DOMAIN @ |-> SetRecursive(@[i], matchersToEnforce)]]
      [] n.kind \in WrapperKinds ->
            [n EXCEPT !.expr = SetRecursive(@, matchersToEnforce)]
      [] OTHER -> n

(***************************************************************************)
(* encoding/json: the number of bytes a value is written with.  A string   *)
(* takes its length, every matcher, label, alert, rule and group the       *)
(* bytes of its punctuation and field names on top of its strings.         *)
(***************************************************************************)
RECURSIVE SeqSum(_)
SeqSum(ns) == IF ns = <<>> THEN 0 ELSE Head(ns) + SeqSum(Tail(ns))

labelsLen(ls) == 2 + SeqSum([i \in DOMAIN ls |-> Len(ls[i].name) + Len(ls[i].value) + 6])

matchersLen(ms) ==
    2 + SeqSum([i \in DOMAIN ms |-> Len(ms[i].name) + Len(ms[i].value) + 40])

rulesLen(rs) ==
    2 + SeqSum([i \in DOMAIN rs |-> 20 + Len(rs[i].type) + labelsLen(rs[i].labels)])

dataLen(d) ==
    CASE d.kind = "alerts" ->
            13 + SeqSum([i \in DOMAIN d.alerts |-> 12 + labelsLen(d.alerts[i].labels)])
      [] d.kind = "rules" ->
            13 + SeqSum([i \in DOMAIN d.groups |->
                            30 + Len(d.groups[i].name) + rulesLen(d.groups[i].rules)])
      [] OTHER -> 4

\* the byte length of a body
bodyLen(b) ==
    CASE b.kind = "api" -> 22 + Len(b.status) + dataLen(b.data)
      [] b.kind = "json" -> 30 + Len(b.sil.id) + matchersLen(b.sil.matchers)
      [] b.kind = "form" -> 8 * (Len(b.query) + Len(b.match))
      [] b.kind \in {"opaque", "badjson"} -> 7
      [] OTHER -> 0

(***************************************************************************)
(* Requests, responses and configuration of the proxy.                     *)
(***************************************************************************)
RevMux == "mux"                 \* routes.go, ServeMux revision
RevForwarders == "forwarders"   \* routes.go, forwarders-map revision
ModeForm == "form"
ModeStatic == "static"

NoSilence == [id |-> "", matchers |-> <<>>]
\* a *bool field: <<>> when the code leaves it unset (nil, left out of the
\* JSON), <<b>> when it points to b
NilBool == <<>>
BoolPtr(b) == <<b>>
\* models.Matcher built from Name, Value and IsRegex: IsEqual stays unset
SilenceMatcher(n, v, re) == [name |-> n, value |-> v, isRegex |-> re, isEqual |-> NilBool]

NoBody == [kind |-> "none", query |-> <<>>, match |-> <<>>, sil |-> NoSilence]
FormBody(q, m) == [kind |-> "form", query |-> q, match |-> m, sil |-> NoSilence]
JSONBody(sil) == [kind |-> "json", query |-> <<>>, match |-> <<>>, sil |-> sil]
BadJSONBody == [kind |-> "badjson", query |-> <<>>, match |-> <<>>, sil |-> NoSilence]
DrainedBody == [kind |-> "drained", query |-> <<>>, match |-> <<>>, sil |-> NoSilence]

\* A request: method, URL path, the URL query parameters the proxy looks at
\* (tenant is the parameter named like the label), the body and the
\* Content-Length the sender states for it.
Request(m, p, t, q, ms, f, b) ==
    [method |-> m, path |-> p, tenant |-> t, query |-> q, match |-> ms,
     filter |-> f, body |-> b, contentLength |-> bodyLen(b)]

NoRequest == Request("", "", <<>>, <<>>, <<>>, <<>>, NoBody)

NoData == [kind |-> "none"]
\* a response taken over from the upstream: its Content-Length is the header
\* of the http.Response handed to the reverse proxy
ProxiedResponse(st, k, d, cl) == [status |-> st, kind |-> k, data |-> d, contentLength |-> cl]
\* a response the proxy writes itself: net/http counts what the handler wrote
Response(st, k, d) == ProxiedResponse(st, k, d, bodyLen(d))
NoResponse == Response(0, "none", NoData)

StatusOK == 200
StatusBadRequest == 400
StatusForbidden == 403
StatusNotFound == 404
StatusUnprocessableEntity == 422
StatusInternalServerError == 500
StatusBadGateway == 502

\* what a handler does with a request
Respond(st, k) ==
    [kind |-> "respond", resp |-> Response(st, k, NoData), req |-> NoRequest,
     lvalues |-> <<>>, id |-> "", after |-> ""]
Forward(r, lv) ==
    [kind |-> "forward", resp |-> NoResponse, req |-> r,
     lvalues |-> lv, id |-> "", after |-> ""]
Fetch(r, lv, id, after) ==
    [kind |-> "fetch", resp |-> NoResponse, req |-> r,
     lvalues |-> lv, id |-> id, after |-> after]

\* http.Error and http.NotFound write a plain text body
httpError(st) == Respond(st, "plain")
\* prometheusAPIError writes {"status":"error","errorType":...,"error":...}
prometheusAPIError(st) == Respond(st, "envelope")
\* a handler that returns without writing: net/http answers 200, empty body
returnSilently == Respond(StatusOK, "empty")

\* url.Values.Get and http.Request.FormValue: the first value or ""
Get(vals) == IF vals = <<>> THEN "" ELSE vals[1]

\* Request.FormValue parses the form body of a POST (and drains it); body
\* parameters take precedence over the URL query string.
ParsesBody(r) == r.method = "POST" /\ r.body.kind = "form"
FormValues(r, urlVals, bodyVals) ==
    IF ParsesBody(r) THEN bodyVals \o urlVals ELSE urlVals
FormText(vals) == IF vals = <<>> THEN EmptyText ELSE vals[1]
AfterFormValue(r) == IF ParsesBody(r) THEN [r EXCEPT !.body = DrainedBody] ELSE r

\* the label value of the request context
mustLabelValue(lv) == lv[1]
MustLabelValues(lv) == lv

\* values are joined with "|"; the values of the model hold no regular
\* expression metacharacter, so escaping leaves them unchanged
RECURSIVE joinMultipleLabelValues(_)
joinMultipleLabelValues(lv) ==
    IF Len(lv) = 0 THEN ""
    ELSE IF Len(lv) = 1 THEN lv[1]
    ELSE lv[1] \o "|" \o joinMultipleLabelValues(Tail(lv))

(***************************************************************************)
(* routes.go, ServeMux revision: the handlers.                             *)
(***************************************************************************)
\* the matcher built by query and matcher from the context's label value
labelMatcher(lv) == Matcher(proxyLabel, MatchEqual, mustLabelValue(lv))

SelectorText(ms) == [kind |-> "Selector", matchers |-> ms]

\* parser.ParseMetricSelector
ParseMetricSelector(text) ==
    IF text.kind = "Selector"
    THEN [err |-> ErrNone, matchers |-> text.matchers]
    ELSE [err |-> ErrQueryParse, matchers |-> <<>>]

\* matchersToString prints the matchers as one selector
matchersToString(ms) == SelectorText(ms)

noop(c, r, lv) == Forward(r, lv)

query(c, r, lv) ==
    LET p == ParseExpr(FormText(FormValues(r, r.query, r.body.query)))
        e == NewPromQLEnforcer(c.errorOnReplace, (proxyLabel :> labelMatcher(lv)))
        res == EnforceNode(e, p.node, <<proxyLabel>>)
    IN  IF p.err # ErrNone THEN returnSilently
        ELSE IF res.err # ErrNone THEN returnSilently
        ELSE Forward([AfterFormValue(r) EXCEPT !.query = <<res.node>>], lv)

matcher(c, r, lv) ==
    LET parsed == [i \in DOMAIN r.match |-> ParseMetricSelector(r.match[i])] IN
    IF r.match = <<>>
    THEN Forward([r EXCEPT !.match = <<matchersToString(<<labelMatcher(lv)>>)>>], lv)
    ELSE IF \E i \in DOMAIN parsed : parsed[i].err # ErrNone
    THEN returnSilently
    ELSE Forward([r EXCEPT !.match =
                     [i \in DOMAIN parsed |->
                        matchersToString(parsed[i].matchers \o <<labelMatcher(lv)>>)]],
                 lv)

(***************************************************************************)
(* silences.go.                                                            *)
(***************************************************************************)
\* only the first matcher on the label is looked at
RECURSIVE hasMatcherForLabel(_, _, _)
hasMatcherForLabel(matchers, name, values) ==
    IF matchers = <<>> THEN FALSE
    ELSE IF Head(matchers).name = name
         THEN Head(matchers).isRegex
              /\ Head(matchers).value = joinMultipleLabelValues(values)
         ELSE hasMatcherForLabel(Tail(matchers), name, values)

\* filterSilencesFromResp keeps the silences hasMatcherForLabel accepts
filterSilencesFromResp(lv, data) ==
    SeqFilter(data, [i \in DOMAIN data |->
                        hasMatcherForLabel(data[i].matchers, proxyLabel, lv)])

\* the handler of the passthrough paths hands the request to the proxy as is
passthrough(c, r, lv) == Forward(r, lv)

\* labels.ParseMatcher of the Alertmanager
ParseMatcher(filter) == [err |-> filter.type \notin MatchTypes, m |-> filter]

enforceFilterParameter(c, r, lv) ==
    LET proxyLabelMatch ==
            Matcher(proxyLabel, MatchRegexp, joinMultipleLabelValues(MustLabelValues(lv)))
        kept == SeqFilter(r.filter,
                          [i \in DOMAIN r.filter |-> r.filter[i].name # proxyLabel])
    IN  IF \E i \in DOMAIN r.filter : ParseMatcher(r.filter[i]).err
        THEN prometheusAPIError(StatusBadRequest)
        ELSE Forward([r EXCEPT !.filter = <<proxyLabelMatch>> \o kept,
                               !.tenant = <<>>], lv)

\* req.URL.RawQuery = "" drops every URL parameter
ClearRawQuery(r) ==
    [r EXCEPT !.tenant = <<>>, !.query = <<>>, !.match = <<>>, !.filter = <<>>]

\* (mutant) the silence is forwarded however few matchers it has
postSilenceInjectUnchecked(c, r, lv) ==
    LET matcherValue == joinMultipleLabelValues(MustLabelValues(lv))
        modified == <<SilenceMatcher(proxyLabel, matcherValue, TRUE)>>
                        \o r.body.sil.matchers
        buf == JSONBody([r.body.sil EXCEPT !.matchers = modified])
    IN  Forward([ClearRawQuery(r) EXCEPT !.body = buf, !.contentLength = bodyLen(buf)],
                lv)

\* postSilence from the injection of the matcher on
postSilenceInject(c, r, lv) ==
    LET matcherValue == joinMultipleLabelValues(MustLabelValues(lv))
        modified == <<SilenceMatcher(proxyLabel, matcherValue, TRUE)>>
                        \o r.body.sil.matchers
        buf == JSONBody([r.body.sil EXCEPT !.matchers = modified])
    IN  IF Len(modified) < 2
        THEN prometheusAPIError(StatusBadRequest)
        ELSE Forward([ClearRawQuery(r) EXCEPT !.body = buf, !.contentLength = bodyLen(buf)],
                     lv)

\* postSilence up to the fetch of the existing silence
postSilence(c, r, lv) ==
    IF r.body.kind # "json" THEN prometheusAPIError(StatusBadRequest)
    ELSE IF r.body.sil.id # "" THEN Fetch(r, lv, r.body.sil.id, "postSilence")
    ELSE postSilenceInject(c, r, lv)

\* (mutant) the update goes on whatever the existing silence matches
postSilenceUnguarded(c, r, lv, existing) ==
    IF existing.err THEN prometheusAPIError(StatusBadGateway)
    ELSE postSilenceInject(c, r, lv)

\* postSilence once getSilenceByID has returned
postSilenceFetched(c, r, lv, existing) ==
    IF existing.err THEN prometheusAPIError(StatusBadGateway)
    ELSE IF ~ hasMatcherForLabel(existing.sil.matchers, proxyLabel, MustLabelValues(lv))
    THEN prometheusAPIError(StatusForbidden)
    ELSE postSilenceInject(c, r, lv)

silencePrefix == "/api/v2/silence/"

\* strings.TrimPrefix(req.URL.Path, "/api/v2/silence/") over the paths of the model
silID(path) ==
    CASE path = "/api/v2/silence/" -> ""
      [] path = "/api/v2/silence/s1" -> "s1"
      [] path = "/api/v2/silence/s2" -> "s2"
      [] OTHER -> path

deleteSilence(c, r, lv) ==
    IF silID(r.path) = "" \/ silID(r.path) = r.path
    THEN prometheusAPIError(StatusBadRequest)
    ELSE Fetch(r, lv, silID(r.path), "deleteSilence")

\* (mutant) the delete is forwarded whatever the silence matches
deleteSilenceUnguarded(c, r, lv, existing) ==
    IF existing.err THEN prometheusAPIError(StatusBadGateway)
    ELSE Forward(ClearRawQuery(r), lv)

deleteSilenceFetched(c, r, lv, existing) ==
    IF existing.err THEN prometheusAPIError(StatusBadGateway)
    ELSE IF ~ hasMatcherForLabel(existing.sil.matchers, proxyLabel, MustLabelValues(lv))
    THEN prometheusAPIError(StatusForbidden)
    ELSE Forward(ClearRawQuery(r), lv)

silences(c, r, lv) ==
    CASE r.method = "GET" -> passthrough(c, r, lv)
      [] r.method = "POST" -> postSilence(c, r, lv)
      [] OTHER -> httpError(StatusNotFound)

(***************************************************************************)
(* routes.go, ServeMux revision: registration and dispatch.                *)
(***************************************************************************)
Route(pat, h, ms) == [pattern |-> pat, handler |-> h, methods |-> ms]

\* NewRoutes: the patterns registered on the ServeMux
muxRoutes ==
    { Route("/federate", "matcher", {"GET"}),
      Route("/api/v1/query", "query", {"GET", "POST"}),
      Route("/api/v1/query_range", "query", {"GET", "POST"}),
      Route("/api/v1/alerts", "noop", {"GET"}),
      Route("/api/v1/rules", "noop", {"GET"}),
      Route("/api/v1/series", "matcher", {"GET"}),
      Route("/api/v2/silences", "silences", {"GET", "POST"}),
      Route("/api/v2/silences/", "silences", {"GET", "POST"}),
      Route("/api/v2/silence/", "deleteSilence", {"DELETE"}) }

\* the Alertmanager alert endpoints are served by enforceFilterParameter
alertmanagerFilterRoutes ==
    { Route("/api/v2/alerts", "enforceFilterParameter", {"GET"}),
      Route("/api/v2/alerts/groups", "enforceFilterParameter", {"GET"}) }

\* a pattern ending in "/" matches the subtree below it
subtree(path) ==
    IF path \in {"/api/v2/silence/s1", "/api/v2/silence/s2"}
    THEN "/api/v2/silence/" ELSE ""

\* http.ServeMux: the matching routes (exact pattern first, then subtree)
muxMatch(routes, path) ==
    LET exact == {rt \in routes : rt.pattern = path} IN
    IF exact # {} THEN exact ELSE {rt \in routes : rt.pattern = subtree(path)}

callHandler(h, c, r, lv) ==
    CASE h = "matcher" -> matcher(c, r, lv)
      [] h = "query" -> query(c, r, lv)
      [] h = "noop" -> noop(c, r, lv)
      [] h = "silences" -> silences(c, r, lv)
      [] h = "deleteSilence" -> deleteSilence(c, r, lv)
      [] h = "enforceFilterParameter" -> enforceFilterParameter(c, r, lv)

\* enforceMethods: the handler for the listed methods, 404 for the others
enforceMethods(rt, c, r, lv) ==
    IF r.method \in rt.methods THEN callHandler(rt.handler, c, r, lv)
    ELSE httpError(StatusNotFound)

muxServeHTTP(c, r, lv) ==
    LET m == muxMatch(muxRoutes \cup alertmanagerFilterRoutes, r.path) IN
    IF m = {} THEN httpError(StatusNotFound)
    ELSE enforceMethods(CHOOSE rt \in m : TRUE, c, r, lv)

\* routes.ServeHTTP of the ServeMux revision: the label value is read from
\* the URL query and removed from it before the mux sees the request
ServeHTTP(c, r) ==
    LET lvalue == Get(r.tenant) IN
    IF lvalue = "" THEN httpError(StatusBadRequest)
    ELSE muxServeHTTP(c, [r EXCEPT !.tenant = <<>>], <<lvalue>>)

\* (mutant) a label value in the URL query overrides the configured values
StaticLabelEnforcerOverridable(c, r) ==
    muxServeHTTP(c, r, IF Get(r.tenant) # "" THEN <<Get(r.tenant)>> ELSE c.staticValues)

\* StaticLabelEnforcer: the configured values, whatever the request holds
StaticLabelEnforcer(c, r) == muxServeHTTP(c, r, c.staticValues)

(***************************************************************************)
(* routes.go, forwarders-map revision.                                     *)
(***************************************************************************)
forwarders ==
    { Route("/federate", "federate", {}),
      Route("/api/v1/query", "query", {}),
      Route("/api/v1/query_range", "query", {}),
      Route("/api/v1/alerts", "noop", {}),
      Route("/api/v1/rules", "noop", {}) }

queryForwarders(c, r, lv) ==
    LET p == ParseExpr(FormText(FormValues(r, r.query, r.body.query))) IN
    IF p.err # ErrNone THEN returnSilently
    ELSE Forward([AfterFormValue(r) EXCEPT
                     !.query = <<SetRecursive(p.node, <<labelMatcher(lv)>>)>>], lv)

federate(c, r, lv) ==
    Forward([r EXCEPT !.match = <<SelectorText(<<labelMatcher(lv)>>)>>], lv)

\* routes.ServeHTTP of the forwarders revision: req.URL.Query() returns a
\* copy, so the Del on it leaves the request's query string as it was
ServeHTTPForwarders(c, r) ==
    LET found == {rt \in forwarders : rt.pattern = r.path}
        h == (CHOOSE rt \in found : TRUE).handler
        lvalue == Get(r.tenant)
    IN  IF found = {} THEN httpError(StatusNotFound)
        ELSE IF lvalue = "" THEN httpError(StatusBadRequest)
        ELSE CASE h = "federate" -> federate(c, r, <<lvalue>>)
               [] h = "query" -> queryForwarders(c, r, <<lvalue>>)
               [] h = "noop" -> noop(c, r, <<lvalue>>)

\* the handler the configuration installs
Serve(c, r) ==
    CASE c.mode = ModeStatic -> StaticLabelEnforcer(c, r)
      [] c.rev = RevMux -> ServeHTTP(c, r)
      [] OTHER -> ServeHTTPForwarders(c, r)

(***************************************************************************)
(* rules.go: the response filters.                                         *)
(***************************************************************************)
Label(n, v) == [name |-> n, value |-> v]
Alert(ls) == [labels |-> ls]
Rule(t, ls) == [type |-> t, labels |-> ls]
RuleGroup(n, rs) == [name |-> n, rules |-> rs]

OpaqueBody == [kind |-> "opaque"]
BadJSON == [kind |-> "badjson"]
APIBody(st, d) == [kind |-> "api", status |-> st, data |-> d]
AlertsData(as) == [kind |-> "alerts", alerts |-> as]
RulesData(gs) == [kind |-> "rules", groups |-> gs]
BadData == [kind |-> "baddata"]

\* the upstream states the length of the body it sends
UpstreamResponse(st, b) == [status |-> st, body |-> b, contentLength |-> bodyLen(b)]

hasLabel(ls, name, value) ==
    \E i \in DOMAIN ls : ls[i].name = name /\ ls[i].value = value

\* rule.UnmarshalJSON knows the alerting and the recording rules
validRule(rl) == rl.type \in {"alerting", "recording"}

filterGroup(rg, lvalue) ==
    [rg EXCEPT !.rules =
        SeqFilter(@, [i \in DOMAIN @ |-> hasLabel(@[i].labels, proxyLabel, lvalue)])]

\* routes.rules: the process function handed to modifyAPIResponse
rules(data, lv) ==
    IF \/ data.kind # "rules"
       \/ \E i \in DOMAIN data.groups :
            \E j \in DOMAIN data.groups[i].rules : ~ validRule(data.groups[i].rules[j])
    THEN [err |-> TRUE, v |-> NoData]
    ELSE LET gs == [i \in DOMAIN data.groups |->
                        filterGroup(data.groups[i], mustLabelValue(lv))]
         IN [err |-> FALSE,
             v |-> RulesData(SeqFilter(gs, [i \in DOMAIN gs |-> Len(gs[i].rules) > 0]))]

\* routes.alerts: the process function handed to modifyAPIResponse
alerts(data, lv) ==
    IF data.kind # "alerts" THEN [err |-> TRUE, v |-> NoData]
    ELSE [err |-> FALSE,
          v |-> AlertsData(SeqFilter(data.alerts,
                    [i \in DOMAIN data.alerts |->
                        hasLabel(data.alerts[i].labels, proxyLabel, mustLabelValue(lv))]))]

\* getAPIResponse fails on a body that is no envelope or no success
getAPIResponseFails(ur) == ur.body.kind # "api" \/ ur.body.status # "success"

\* the reverse proxy answers 502 when ModifyResponse returns an error
proxyError == Response(StatusBadGateway, "empty", NoData)
unmodified(ur) == ProxiedResponse(ur.status, "upstream", ur.body, ur.contentLength)

\* (mutant) the body is replaced and the Content-Length header left as it was
modifyAPIResponseStaleLength(ur, processed) ==
    IF ur.status # StatusOK THEN unmodified(ur)
    ELSE IF getAPIResponseFails(ur) THEN proxyError
    ELSE IF processed.err THEN proxyError
    ELSE ProxiedResponse(StatusOK, "api", APIBody(ur.body.status, processed.v),
                         ur.contentLength)

\* (mutant) a response is decoded whatever its status
modifyAPIResponseAnyStatus(ur, processed) ==
    IF getAPIResponseFails(ur) THEN proxyError
    ELSE IF processed.err THEN proxyError
    ELSE LET buf == APIBody(ur.body.status, processed.v) IN
         ProxiedResponse(StatusOK, "api", buf, bodyLen(buf))

modifyAPIResponse(ur, processed) ==
    IF ur.status # StatusOK THEN unmodified(ur)
    ELSE IF getAPIResponseFails(ur) THEN proxyError
    ELSE IF processed.err THEN proxyError
    ELSE LET buf == APIBody(ur.body.status, processed.v) IN
         ProxiedResponse(StatusOK, "api", buf, bodyLen(buf))

\* the director of the single-host reverse proxy joins the path of the
\* upstream URL and the path of the request
outboundPath(c, r) == c.upstreamPath \o r.path

\* routes.ModifyResponse: the modifier registered for the path of the
\* response's request, which is the outbound request
ModifyResponse(c, r, ur, lv) ==
    CASE outboundPath(c, r) = "/api/v1/rules" ->
            modifyAPIResponse(ur, IF ur.body.kind = "api" THEN rules(ur.body.data, lv)
                                  ELSE [err |-> TRUE, v |-> NoData])
      [] outboundPath(c, r) = "/api/v1/alerts" ->
            modifyAPIResponse(ur, IF ur.body.kind = "api" THEN alerts(ur.body.data, lv)
                                  ELSE [err |-> TRUE, v |-> NoData])
      [] OTHER -> unmodified(ur)

(***************************************************************************)
(* The inputs: configurations, client requests, upstream state.            *)
(***************************************************************************)
Config(rev, mode, sv, eor, up) ==
    [rev |-> rev, mode |-> mode, staticValues |-> sv, errorOnReplace |-> eor,
     upstreamPath |-> up]

\* the path of the upstream URL: none, or a prefix such as http://host/prom
UpstreamPaths == {"", "/prom"}

\* the forwarders revision knows neither errorOnReplace nor the static mode
Configs ==
    {Config(RevMux, ModeForm, <<>>, eor, p) : eor \in BOOLEAN, p \in UpstreamPaths}
    \cup {Config(RevMux, ModeStatic, <<"t1">>, eor, "") : eor \in BOOLEAN}
    \cup {Config(RevForwarders, ModeForm, <<>>, FALSE, p) : p \in UpstreamPaths}

Methods == {"GET", "POST", "DELETE"}
TenantParams == {<<>>, <<"">>, <<"t1">>, <<"t2">>, <<"t1", "">>, <<"t2", "t1">>}

up == VectorSelector("up", <<>>)
QueryTexts ==
    { InvalidText,
      NumberLiteral,
      up,
      VectorSelector("up", <<Matcher(proxyLabel, MatchEqual, "t1")>>),
      VectorSelector("up", <<Matcher(proxyLabel, MatchEqual, "t2")>>),
      BinaryExpr(VectorSelector("up", <<Matcher(otherLabel, MatchEqual, "x")>>),
                 VectorSelector("foo", <<Matcher(proxyLabel, MatchRegexp, "t2")>>)),
      Call("rate", <<MatrixSelector(
                        VectorSelector("up", <<Matcher(proxyLabel, MatchNotEqual, "t1")>>))>>),
      AggregateExpr(VectorSelector("up", <<Matcher(otherLabel, MatchEqual, "x")>>)) }

BodyQueryTexts ==
    { InvalidText, up, VectorSelector("up", <<Matcher(proxyLabel, MatchEqual, "t2")>>) }

SelectorTexts ==
    { InvalidText,
      SelectorText(<<Matcher(proxyLabel, MatchEqual, "t2")>>),
      SelectorText(<<Matcher(otherLabel, MatchEqual, "x")>>) }

FilterTexts ==
    { Matcher("", "invalid", ""),
      Matcher(proxyLabel, MatchEqual, "t2"),
      Matcher(otherLabel, MatchEqual, "x") }

SilenceMatchers ==
    { SilenceMatcher(proxyLabel, "t1", TRUE),
      SilenceMatcher(proxyLabel, "t1", FALSE),
      SilenceMatcher(proxyLabel, "t2", TRUE),
      SilenceMatcher(otherLabel, "x", FALSE) }

SilenceMatcherLists == SeqsUpTo(SilenceMatchers, MaxSilenceMatchers)

PostedSilences ==
    {[id |-> i, matchers |-> ms] : i \in {"", "s1", "s2"},
                                   ms \in SeqsUpTo(SilenceMatchers, 1)}

QueryRequests ==
    {Request(m, "/api/v1/query", t, q, <<>>, <<>>, b) :
        m \in Methods, t \in TenantParams,
        q \in SeqsUpTo(QueryTexts, 1),
        b \in {NoBody} \cup {FormBody(<<x>>, <<>>) : x \in BodyQueryTexts}}

MatchRequests ==
    {Request(m, p, t, <<>>, ms, <<>>, b) :
        m \in Methods, p \in {"/federate", "/api/v1/series"}, t \in TenantParams,
        ms \in SeqsUpTo(SelectorTexts, MaxSelectors),
        b \in {NoBody,
               FormBody(<<>>, <<SelectorText(<<Matcher(proxyLabel, MatchEqual, "t2")>>)>>)}}

FilteredRequests ==
    {Request(m, p, t, <<>>, <<>>, <<>>, NoBody) :
        m \in Methods, p \in {"/api/v1/rules", "/api/v1/alerts", "/graph"},
        t \in TenantParams}

FilterRequests ==
    {Request(m, p, t, <<>>, <<>>, f, NoBody) :
        m \in Methods, p \in {"/api/v2/alerts", "/api/v2/silences"},
        t \in TenantParams, f \in SeqsUpTo(FilterTexts, MaxFilters)}

SilenceRequests ==
    {Request("POST", "/api/v2/silences", t, <<>>, <<>>, <<>>, b) :
        t \in TenantParams,
        b \in {BadJSONBody} \cup {JSONBody(sil) : sil \in PostedSilences}}
    \cup {Request(m, p, t, <<>>, <<>>, <<>>, NoBody) :
            m \in Methods, p \in {"/api/v2/silence/", "/api/v2/silence/s1"},
            t \in TenantParams}

Requests ==
    QueryRequests \cup MatchRequests \cup FilteredRequests
        \cup FilterRequests \cup SilenceRequests

\* requests whose handling reads the silences of the upstream
ReadsSilence(r) ==
    \/ r.path = "/api/v2/silence/s1"
    \/ r.body.kind = "json" /\ r.body.sil.id # ""

NoStore == [i \in {} |-> NoSilence]
Stores == {("s1" :> [id |-> "s1", matchers |-> ms]) : ms \in SilenceMatcherLists}

LabelSets ==
    { <<>>,
      <<Label(proxyLabel, "t1")>>,
      <<Label(proxyLabel, "t2")>>,
      <<Label(otherLabel, "x"), Label(proxyLabel, "t1")>> }

Rules ==
    { Rule("recording", <<Label(proxyLabel, "t1")>>),
      Rule("recording", <<Label(proxyLabel, "t2")>>),
      Rule("alerting", <<>>),
      Rule("unknown", <<Label(proxyLabel, "t1")>>) }

UpstreamData(path) ==
    CASE path = "/api/v1/alerts" ->
            {AlertsData(as) : as \in SeqsUpTo({Alert(ls) : ls \in LabelSets}, MaxAlerts)}
      [] path = "/api/v1/rules" ->
            {RulesData(gs) :
                gs \in SeqsUpTo({RuleGroup("g", rs) : rs \in SeqsUpTo(Rules, MaxRules)},
                                MaxGroups)}
      [] OTHER -> {}

\* what the upstream may answer to a forwarded request
UpstreamResponses(path) ==
    {UpstreamResponse(st, b) :
        st \in {StatusOK, StatusInternalServerError},
        b \in {OpaqueBody, BadJSON, APIBody("error", BadData), APIBody("success", BadData)}
              \cup {APIBody("success", d) : d \in UpstreamData(path)}}

(***************************************************************************)
(* The request pipeline.                                                   *)
(***************************************************************************)
NotRun == [err |-> "not run", res |-> <<>>]
NotBuilt == [run |-> FALSE, err |-> FALSE, patterns |-> {}]
\* the context of a request whose client is there
LiveContext == [done |-> FALSE, sent |-> 0]
NotRewritten == [err |-> "not run", text |-> EmptyText]
NotFiltered == [run |-> FALSE, silences |-> <<>>]
NoPending == Respond(0, "none")
NotFetched == [err |-> TRUE, sil |-> NoSilence]
NoUpstreamResponse == UpstreamResponse(0, [kind |-> "none"])

LogEntry(k, id, r) == [kind |-> k, id |-> id, req |-> r]

Init ==
    /\ targets = <<>>
    /\ enforcer = NewPromQLEnforcer(FALSE, <<>>)
    /\ order = <<>>
    /\ enforced = NotRun
    /\ rewritten = NotRewritten
    /\ rewrittenAgain = NotRewritten
    /\ upstreamSilences = <<>>
    /\ filteredSilences = NotFiltered
    /\ passthroughPaths = <<>>
    /\ built = NotBuilt
    /\ inflight = <<>>
    /\ cfg \in Configs
    /\ req \in Requests
    /\ lvalues = <<>>
    /\ pc = "received"
    /\ pending = NoPending
    /\ fetched = NotFetched
    /\ upstreamLog = <<>>
    /\ upstreamResp = NoUpstreamResponse
    /\ silenceStore \in (IF ReadsSilence(req) THEN Stores ELSE {NoStore})
    /\ ctx = LiveContext
    /\ resp = NoResponse

\* the reverse proxy sends the outbound request with the context of the
\* inbound one: the transport sends nothing once the context is done
roundTripSends(c) == ~ c.done

\* (mutant) the silence is fetched with a context of its own
getSilenceByIDDetached(c) == TRUE

\* getSilenceByID hands the context of the request to the client
getSilenceByIDSends(c) == ~ c.done

\* nothing reaches a client that has gone: what the handler or the error
\* handler of the reverse proxy writes is lost
Abandon ==
    /\ pc' = "done"
    /\ UNCHANGED <<resp, lvalues, pending, upstreamLog>>

\* what follows from the outcome of a handler
Continue(out) ==
    CASE out.kind = "respond" /\ ctx.done -> Abandon
      [] out.kind = "fetch" /\ ~ getSilenceByIDSends(ctx) -> Abandon
      [] out.kind = "forward" /\ ~ roundTripSends(ctx) -> Abandon
      [] out.kind = "respond" /\ ~ ctx.done ->
            /\ resp' = out.resp
            /\ pc' = "done"
            /\ UNCHANGED <<lvalues, pending, upstreamLog>>
      [] out.kind = "fetch" /\ getSilenceByIDSends(ctx) ->
            /\ upstreamLog' = Append(upstreamLog,
                    LogEntry("getSilence", out.id,
                             Request("GET", "/api/v2/silence/{id}", <<>>, <<>>, <<>>, <<>>, NoBody)))
            /\ pending' = out
            /\ lvalues' = out.lvalues
            /\ pc' = "fetching"
            /\ UNCHANGED resp
      [] out.kind = "forward" /\ roundTripSends(ctx) /\ out.req.body.kind = "drained" ->
            \* the transport finds Content-Length > 0 and no body left to send
            /\ resp' = proxyError
            /\ lvalues' = out.lvalues
            /\ pc' = "done"
            /\ UNCHANGED <<pending, upstreamLog>>
      [] out.kind = "forward" /\ roundTripSends(ctx) /\ out.req.body.kind # "drained" ->
            /\ upstreamLog' = Append(upstreamLog, LogEntry("proxy", "", out.req))
            /\ lvalues' = out.lvalues
            /\ pc' = "forwarded"
            /\ UNCHANGED <<pending, resp>>

\* the proxy serves the client's request up to its first upstream call
ServeRequest ==
    /\ pc = "received"
    /\ Continue(Serve(cfg, req))
    /\ UNCHANGED <<cfg, req, fetched, upstreamResp, silenceStore, ctx,
                   enforceVars, filterVars, routesVars, inflight>>

\* getSilenceByID returns: the guard decides.  The fetch fails when the
\* upstream fails and when its context is done before the answer is there.
GetSilenceReturns ==
    /\ pc = "fetching"
    /\ \E failed \in {b \in BOOLEAN : ~ getSilenceByIDSends(ctx) => b} :
         LET found == pending.id \in DOMAIN silenceStore /\ ~ failed
             got == [err |-> ~ found,
                     sil |-> IF found THEN silenceStore[pending.id] ELSE NoSilence]
         IN /\ fetched' = got
            /\ Continue(IF pending.after = "postSilence"
                        THEN postSilenceFetched(cfg, pending.req, pending.lvalues, got)
                        ELSE deleteSilenceFetched(cfg, pending.req, pending.lvalues, got))
    /\ UNCHANGED <<cfg, req, upstreamResp, silenceStore, ctx,
                   enforceVars, filterVars, routesVars, inflight>>

forwardedRequest == upstreamLog[Len(upstreamLog)].req

\* the upstream answers the forwarded request; the response goes through
\* ModifyResponse and then to the client
UpstreamResponds ==
    /\ pc = "forwarded"
    /\ \E ur \in UpstreamResponses(forwardedRequest.path) :
         /\ upstreamResp' = ur
         /\ resp' = IF roundTripSends(ctx)
                    THEN ModifyResponse(cfg, forwardedRequest, ur, lvalues)
                    ELSE resp
    /\ pc' = "done"
    /\ UNCHANGED <<cfg, req, lvalues, pending, fetched, upstreamLog, silenceStore, ctx,
                   enforceVars, filterVars, routesVars, inflight>>

Next == ServeRequest \/ GetSilenceReturns \/ UpstreamResponds

Spec == Init /\ [][Next]_vars

(***************************************************************************)
(* The pipeline with a client that may go away while its request is being  *)
(* served: net/http then cancels the context of the request.               *)
(***************************************************************************)
InitCancel ==
    /\ Init
    /\ req \in SilenceRequests \cup FilteredRequests

\* the client disconnects; sent remembers how many requests had gone to the
\* upstream by then
ClientDisconnects ==
    /\ pc \in {"received", "fetching", "forwarded"}
    /\ ~ ctx.done
    /\ ctx' = [done |-> TRUE, sent |-> Len(upstreamLog)]
    /\ UNCHANGED <<cfg, req, lvalues, pc, pending, fetched, upstreamLog, upstreamResp,
                   silenceStore, resp, enforceVars, filterVars, routesVars, inflight>>

NextCancel == ServeRequest \/ GetSilenceReturns \/ UpstreamResponds \/ ClientDisconnects

SpecCancel == InitCancel /\ [][NextCancel]_vars

(***************************************************************************)
(* The pipeline with another writer on the upstream: while the forwarded   *)
(* write of a guarded request is on its way, the silence it names may be   *)
(* replaced.                                                               *)
(***************************************************************************)
InitRace ==
    /\ Init
    /\ ReadsSilence(req)

OtherWriter ==
    /\ pc = "forwarded"
    /\ pending.kind = "fetch"
    /\ \E ms \in SilenceMatcherLists :
         /\ ms # silenceStore[pending.id].matchers
         /\ silenceStore' = [silenceStore EXCEPT ![pending.id].matchers = ms]
    /\ UNCHANGED <<cfg, req, lvalues, pc, pending, fetched, upstreamLog, upstreamResp,
                   ctx, resp, enforceVars, filterVars, routesVars, inflight>>

NextRace == ServeRequest \/ GetSilenceReturns \/ UpstreamResponds \/ OtherWriter

SpecRace == InitRace /\ [][NextRace]_vars

(***************************************************************************)
(* The enforcer on its own: EnforceMatchers applied to bounded inputs.     *)
(***************************************************************************)
LabelNames == {proxyLabel, otherLabel}

\* the value "a|b" is an alternation when it stands in a regular expression
\* matcher and a plain string when it stands in an equality matcher
MatcherUniverse ==
    {Matcher(proxyLabel, t, v) : t \in MatchTypes, v \in {"a", "a|b"}}
    \cup {Matcher(otherLabel, t, "x") : t \in MatchTypes}

\* the maps NewPromQLEnforcer can build: every matcher under its own name
EnforcerMaps ==
    UNION {{f \in [D -> MatcherUniverse] : \A n \in D : f[n].name = n} :
              D \in (SUBSET LabelNames) \ {{}}}

InitEnforce ==
    /\ targets \in SeqsUpTo(MatcherUniverse, MaxMatchers)
    /\ enforcer \in {NewPromQLEnforcer(eor, m) : eor \in BOOLEAN, m \in EnforcerMaps}
    /\ order = <<>>
    /\ enforced = NotRun
    /\ rewritten = NotRewritten
    /\ rewrittenAgain = NotRewritten
    /\ upstreamSilences = <<>>
    /\ filteredSilences = NotFiltered
    /\ passthroughPaths = <<>>
    /\ built = NotBuilt
    /\ inflight = <<>>
    /\ cfg = Config(RevMux, ModeForm, <<>>, FALSE, "")
    /\ req = NoRequest
    /\ lvalues = <<>>
    /\ pc = "enforce"
    /\ pending = NoPending
    /\ fetched = NotFetched
    /\ upstreamLog = <<>>
    /\ upstreamResp = NoUpstreamResponse
    /\ silenceStore = NoStore
    /\ ctx = LiveContext
    /\ resp = NoResponse

ApplyEnforceMatchers ==
    /\ pc = "enforce"
    /\ enforced = NotRun
    /\ \E ord \in MapOrders(enforcer.labelMatchers) :
         /\ order' = ord
         /\ enforced' = EnforceMatchers(enforcer, targets, ord)
    /\ UNCHANGED <<targets, enforcer, rewritten, rewrittenAgain,
                   proxyVars, filterVars, routesVars, inflight>>

\* the query whose only selector holds the targets
targetQuery == VectorSelector("up", targets)

\* Enforce on the query, with the map iterated in the same order
ApplyEnforce ==
    /\ pc = "enforce"
    /\ enforced # NotRun
    /\ rewritten = NotRewritten
    /\ rewritten' = Enforce(enforcer, targetQuery, order)
    /\ UNCHANGED <<targets, enforcer, order, enforced, rewrittenAgain,
                   proxyVars, filterVars, routesVars, inflight>>

\* Enforce on the text the first Enforce returned
ReapplyEnforce ==
    /\ pc = "enforce"
    /\ rewritten # NotRewritten
    /\ rewritten.err = ErrNone
    /\ rewrittenAgain = NotRewritten
    /\ rewrittenAgain' = Enforce(enforcer, rewritten.text, order)
    /\ UNCHANGED <<targets, enforcer, order, enforced, rewritten,
                   proxyVars, filterVars, routesVars, inflight>>

NextEnforce == ApplyEnforceMatchers \/ ApplyEnforce \/ ReapplyEnforce

SpecEnforce == InitEnforce /\ [][NextEnforce]_vars

(***************************************************************************)
(* The silence list filter on its own: filterSilencesFromResp applied to   *)
(* bounded upstream bodies.                                                *)
(***************************************************************************)
ListedSilences == {[id |-> "s1", matchers |-> ms] : ms \in SilenceMatcherLists}

ContextValues == {<<"t1">>, <<"t2">>, <<"t1", "t2">>}

InitFilterSilences ==
    /\ targets = <<>>
    /\ enforcer = NewPromQLEnforcer(FALSE, <<>>)
    /\ order = <<>>
    /\ enforced = NotRun
    /\ rewritten = NotRewritten
    /\ rewrittenAgain = NotRewritten
    /\ upstreamSilences \in SeqsUpTo(ListedSilences, MaxSilences)
    /\ filteredSilences = NotFiltered
    /\ passthroughPaths = <<>>
    /\ built = NotBuilt
    /\ inflight = <<>>
    /\ cfg = Config(RevMux, ModeForm, <<>>, FALSE, "")
    /\ req = NoRequest
    /\ lvalues \in ContextValues
    /\ pc = "filter"
    /\ pending = NoPending
    /\ fetched = NotFetched
    /\ upstreamLog = <<>>
    /\ upstreamResp = NoUpstreamResponse
    /\ silenceStore = NoStore
    /\ ctx = LiveContext
    /\ resp = NoResponse

FilterSilences ==
    /\ pc = "filter"
    /\ ~ filteredSilences.run
    /\ filteredSilences' =
           [run |-> TRUE, silences |-> filterSilencesFromResp(lvalues, upstreamSilences)]
    /\ UNCHANGED <<upstreamSilences, enforceVars, proxyVars, routesVars, inflight>>

NextFilterSilences == FilterSilences

SpecFilterSilences == InitFilterSilences /\ [][NextFilterSilences]_vars

(***************************************************************************)
(* The passthrough list.  NewRoutes checks it once, when the routes are    *)
(* built.  A path is the list of its segments; an entry also says whether  *)
(* it starts with "/" and whether it carries a query string.  A trailing   *)
(* "/" names the same path: the entry "/graph/" serves "/graph".           *)
(***************************************************************************)
MaxPassthrough == 2     \* entries of a passthrough list

PathEntry(lead, segs, q) == [lead |-> lead, segs |-> segs, query |-> q]

\* the paths of the enforced routes
enforcedPaths ==
    { <<"federate">>,
      <<"api", "v1", "query">>, <<"api", "v1", "query_range">>,
      <<"api", "v1", "alerts">>, <<"api", "v1", "rules">>, <<"api", "v1", "series">>,
      <<"api", "v2", "silences">>, <<"api", "v2", "silence">>,
      <<"api", "v2", "alerts">>, <<"api", "v2", "alerts", "groups">> }

IsPrefix(pre, path) == Len(pre) <= Len(path) /\ SubSeq(path, 1, Len(pre)) = pre

\* (mutant) only an entry that is the enforced route itself is refused
shadowsEnforcedExactly(e) == e.segs \in enforcedPaths

\* the entry is, or lies below, an enforced route
shadowsEnforced(e) == \E r \in enforcedPaths : IsPrefix(r, e.segs)

\* the entry is refused: no leading "/", "" or "/", a query string, an
\* entry seen before, an entry shadowing an enforced route
validatePassthroughPath(e, seen) ==
    /\ e.lead
    /\ e.segs # <<>>
    /\ ~ e.query
    /\ e.segs \notin seen
    /\ ~ shadowsEnforced(e)

Pattern(segs, h) == [segs |-> segs, handler |-> h]

\* NewRoutes: the enforced routes, then the passthrough entries in order;
\* the first refused entry makes the construction fail
RECURSIVE registerPassthrough(_, _)
registerPassthrough(paths, seen) ==
    IF paths = <<>> THEN [err |-> FALSE, patterns |-> {}]
    ELSE IF ~ validatePassthroughPath(Head(paths), seen)
    THEN [err |-> TRUE, patterns |-> {}]
    ELSE LET rest == registerPassthrough(Tail(paths), seen \cup {Head(paths).segs}) IN
         [err |-> rest.err,
          patterns |-> IF rest.err THEN {}
                       ELSE rest.patterns \cup {Pattern(Head(paths).segs, "passthrough")}]

NewRoutesWithPassthrough(paths) ==
    LET reg == registerPassthrough(paths, {}) IN
    [run |-> TRUE, err |-> reg.err,
     patterns |-> IF reg.err THEN {}
                  ELSE {Pattern(r, "enforced") : r \in enforcedPaths} \cup reg.patterns]

\* the mux serves a path with the handlers of the longest pattern that is
\* the path or lies above it
dispatch(patterns, path) ==
    LET above == {pt \in patterns : IsPrefix(pt.segs, path)}
        longest == {pt \in above : \A o \in above : Len(o.segs) <= Len(pt.segs)}
    IN {pt.handler : pt \in longest}

PassthroughEntries ==
    { PathEntry(FALSE, <<>>, FALSE),                    \* ""
      PathEntry(TRUE, <<>>, FALSE),                     \* "/"
      PathEntry(TRUE, <<"api1">>, FALSE),               \* "/api1"
      PathEntry(TRUE, <<"api1">>, TRUE),                \* "/api1?args=1"
      PathEntry(FALSE, <<"api4">>, FALSE),              \* "api4"
      PathEntry(TRUE, <<"graph">>, FALSE),              \* "/graph/"
      PathEntry(TRUE, <<"api">>, FALSE),                \* "/api"
      PathEntry(TRUE, <<"api", "v1">>, FALSE),          \* "/api/v1"
      PathEntry(TRUE, <<"federate">>, FALSE),           \* "/federate"
      PathEntry(TRUE, <<"federate", "some">>, FALSE),   \* "/federate/some"
      PathEntry(TRUE, <<"api", "v1", "rules", "x">>, FALSE) }

InitPassthrough ==
    /\ targets = <<>>
    /\ enforcer = NewPromQLEnforcer(FALSE, <<>>)
    /\ order = <<>>
    /\ enforced = NotRun
    /\ rewritten = NotRewritten
    /\ rewrittenAgain = NotRewritten
    /\ upstreamSilences = <<>>
    /\ filteredSilences = NotFiltered
    /\ passthroughPaths \in SeqsUpTo(PassthroughEntries, MaxPassthrough)
    /\ built = NotBuilt
    /\ inflight = <<>>
    /\ cfg = Config(RevMux, ModeForm, <<>>, FALSE, "")
    /\ req = NoRequest
    /\ lvalues = <<>>
    /\ pc = "construct"
    /\ pending = NoPending
    /\ fetched = NotFetched
    /\ upstreamLog = <<>>
    /\ upstreamResp = NoUpstreamResponse
    /\ silenceStore = NoStore
    /\ ctx = LiveContext
    /\ resp = NoResponse

ConstructRoutes ==
    /\ pc = "construct"
    /\ ~ built.run
    /\ built' = NewRoutesWithPassthrough(passthroughPaths)
    /\ UNCHANGED <<passthroughPaths, enforceVars, filterVars, proxyVars, inflight>>

NextPassthrough == ConstructRoutes

SpecPassthrough == InitPassthrough /\ [][NextPassthrough]_vars

(***************************************************************************)
(* Requests served side by side.  net/http runs ServeHTTP in a goroutine   *)
(* per request; the routes are shared and read only, the label value lives *)
(* in the context of each request.  ServeHTTP is cut in the steps at which *)
(* the context is written and read: the value is stored (routes.go:108),   *)
(* the handler reads it back and forwards, the response modifier reads it  *)
(* again when the upstream has answered.                                   *)
(***************************************************************************)
Handling(r) ==
    [req |-> r, lvalues |-> <<>>, pc |-> "received", sent |-> NoRequest,
     upstreamResp |-> NoUpstreamResponse, resp |-> NoResponse]

\* (mutant) the label value is kept in one place for all the requests
withLabelValueShared(fl, i, lv) == [j \in DOMAIN fl |-> [fl[j] EXCEPT !.lvalues = lv]]

\* withLabelValue: the value is put in the context of the request
withLabelValue(fl, i, lv) == [fl EXCEPT ![i].lvalues = lv]

ConcurrentRequests ==
    {Request("GET", "/api/v1/query", t,
             <<VectorSelector("up", <<Matcher(proxyLabel, MatchEqual, "t2")>>)>>,
             <<>>, <<>>, NoBody) : t \in {<<>>, <<"t1">>, <<"t2">>}}
    \cup {Request("GET", "/api/v1/rules", t, <<>>, <<>>, <<>>, NoBody) :
             t \in {<<>>, <<"t1">>, <<"t2">>}}

bothTenantsRules ==
    APIBody("success",
            RulesData(<<RuleGroup("g", <<Rule("recording", <<Label(proxyLabel, "t1")>>),
                                         Rule("recording", <<Label(proxyLabel, "t2")>>)>>)>>))

ConcurrentAnswers(path) ==
    IF path = "/api/v1/rules"
    THEN {UpstreamResponse(StatusOK, bothTenantsRules),
          UpstreamResponse(StatusInternalServerError, bothTenantsRules)}
    ELSE {UpstreamResponse(StatusOK, OpaqueBody)}

InitConcurrent ==
    /\ targets = <<>>
    /\ enforcer = NewPromQLEnforcer(FALSE, <<>>)
    /\ order = <<>>
    /\ enforced = NotRun
    /\ rewritten = NotRewritten
    /\ rewrittenAgain = NotRewritten
    /\ upstreamSilences = <<>>
    /\ filteredSilences = NotFiltered
    /\ passthroughPaths = <<>>
    /\ built = NotBuilt
    /\ inflight \in {<<Handling(r1), Handling(r2)>> : r1, r2 \in ConcurrentRequests}
    /\ cfg \in {Config(RevMux, ModeForm, <<>>, FALSE, p) : p \in UpstreamPaths}
    /\ req = NoRequest
    /\ lvalues = <<>>
    /\ pc = "concurrent"
    /\ pending = NoPending
    /\ fetched = NotFetched
    /\ upstreamLog = <<>>
    /\ upstreamResp = NoUpstreamResponse
    /\ silenceStore = NoStore
    /\ ctx = LiveContext
    /\ resp = NoResponse

\* ServeHTTP up to the call of the mux: the label value goes into the context
EnterServeHTTP(i) ==
    /\ inflight[i].pc = "received"
    /\ LET lvalue == Get(inflight[i].req.tenant) IN
       inflight' =
           IF lvalue = ""
           THEN [inflight EXCEPT ![i].pc = "done",
                                 ![i].resp = httpError(StatusBadRequest).resp]
           ELSE [withLabelValue(inflight, i, <<lvalue>>) EXCEPT ![i].pc = "routed"]
    /\ UNCHANGED <<enforceVars, filterVars, routesVars, proxyVars>>

\* the handler behind the mux reads the label value from the context
HandlerRuns(i) ==
    /\ inflight[i].pc = "routed"
    /\ LET out == muxServeHTTP(cfg, [inflight[i].req EXCEPT !.tenant = <<>>],
                               inflight[i].lvalues)
       IN inflight' =
              IF out.kind = "forward"
              THEN [inflight EXCEPT ![i].pc = "forwarded", ![i].sent = out.req]
              ELSE [inflight EXCEPT ![i].pc = "done", ![i].resp = out.resp]
    /\ UNCHANGED <<enforceVars, filterVars, routesVars, proxyVars>>

\* the upstream answers; ModifyResponse reads the context of the request
UpstreamRespondsTo(i) ==
    /\ inflight[i].pc = "forwarded"
    /\ \E ur \in ConcurrentAnswers(inflight[i].sent.path) :
         inflight' = [inflight EXCEPT
                         ![i].pc = "done",
                         ![i].upstreamResp = ur,
                         ![i].resp = ModifyResponse(cfg, inflight[i].sent, ur,
                                                    inflight[i].lvalues)]
    /\ UNCHANGED <<enforceVars, filterVars, routesVars, proxyVars>>

NextConcurrent ==
    \E i \in DOMAIN inflight :
        EnterServeHTTP(i) \/ HandlerRuns(i) \/ UpstreamRespondsTo(i)

SpecConcurrent == InitConcurrent /\ [][NextConcurrent]_vars

(***************************************************************************)
(* Vocabulary of the properties.                                           *)
(***************************************************************************)
QueryPaths == {"/api/v1/query", "/api/v1/query_range"}
MatchPaths == {"/federate", "/api/v1/series"}
FilterPaths == {"/api/v2/silences", "/api/v2/alerts", "/api/v2/alerts/groups"}
FilteredPaths == {"/api/v1/rules", "/api/v1/alerts"}

\* the requests the reverse proxy has sent upstream
ProxyEntries == {upstreamLog[i] : i \in {j \in DOMAIN upstreamLog : upstreamLog[j].kind = "proxy"}}

\* a matcher list selects the tenant values lv
CarriesTenant(ms, lv) ==
    \E i \in DOMAIN ms :
        /\ ms[i].name = proxyLabel
        /\ ms[i].type \in {MatchEqual, MatchRegexp}
        /\ ms[i].value = joinMultipleLabelValues(lv)

\* the upstream reads the parameters of the URL and, for a POST, of the form
UpstreamQueryTexts(r) ==
    Range(r.query) \cup (IF ParsesBody(r) THEN Range(r.body.query) ELSE {})
UpstreamMatchTexts(r) ==
    Range(r.match) \cup (IF ParsesBody(r) THEN Range(r.body.match) ELSE {})

\* a silence's matcher on the label with the joined tenant values
TenantMatcherIn(ms, lv) ==
    \E i \in DOMAIN ms :
        ms[i].name = proxyLabel /\ ms[i].value = joinMultipleLabelValues(lv)

\* the route table of the configuration knows the path / allows the method
KnownRoutes(c) ==
    IF c.rev = RevMux THEN muxRoutes \cup alertmanagerFilterRoutes ELSE forwarders
KnownPath(c, r) ==
    IF c.rev = RevMux THEN muxMatch(KnownRoutes(c), r.path) # {}
    ELSE \E rt \in forwarders : rt.pattern = r.path
MethodAllowed(c, r) ==
    c.rev = RevMux => \A rt \in muxMatch(KnownRoutes(c), r.path) : r.method \in rt.methods

\* the client names no tenant, or names an empty one
TenantMissing(r) == r.tenant = <<>> \/ \E i \in DOMAIN r.tenant : r.tenant[i] = ""

\* the entities of a rules or alerts payload
Entities(data) ==
    CASE data.kind = "alerts" -> Range(data.alerts)
      [] data.kind = "rules" -> UNION {Range(data.groups[i].rules) : i \in DOMAIN data.groups}
      [] OTHER -> {}

(***************************************************************************)
(* C1.  Every request forwarded on an enforced endpoint carries, in every  *)
(* selector (query, match[]) and in its filters, a matcher on the label    *)
(* with the tenant value(s) of the request, whatever the client put in the *)
(* URL query or in the POST form.                                          *)
(***************************************************************************)
C1_EveryForwardedSelectorCarriesTenant ==
    \A e \in ProxyEntries :
        /\ e.req.path \in QueryPaths =>
              \A t \in UpstreamQueryTexts(e.req) :
                  \A ms \in Selectors(t) : CarriesTenant(ms, lvalues)
        /\ e.req.path \in MatchPaths =>
              /\ UpstreamMatchTexts(e.req) # {}
              /\ \A t \in UpstreamMatchTexts(e.req) :
                    t.kind = "Selector" /\ CarriesTenant(t.matchers, lvalues)
        /\ (e.req.path \in FilterPaths /\ e.req.method = "GET") =>
              CarriesTenant(e.req.filter, lvalues)

(***************************************************************************)
(* C2.  When the upstream answers 200 on /api/v1/rules or /api/v1/alerts,  *)
(* every rule or alert returned to the client carries the label with one   *)
(* of the tenant values of the request.                                    *)
(***************************************************************************)
C2_ReturnedEntitiesCarryTenant ==
    (/\ pc = "done"
     /\ ProxyEntries # {}
     /\ req.path \in FilteredPaths
     /\ upstreamResp.status = StatusOK
     /\ resp.status = StatusOK)
    => /\ resp.kind = "api"
       /\ \A ent \in Entities(resp.data.data) :
             \E i \in DOMAIN lvalues : hasLabel(ent.labels, proxyLabel, lvalues[i])

(***************************************************************************)
(* C3.  A silence POST with an id is forwarded only after the existing     *)
(* silence was fetched; when the fetched silence has no matcher on the     *)
(* label with the tenant value, the answer is 403 and nothing is posted.   *)
(***************************************************************************)
IsUpdatePost ==
    /\ req.method = "POST"
    /\ req.path = "/api/v2/silences"
    /\ req.body.kind = "json"
    /\ req.body.sil.id # ""

C3_UpdateOfForeignSilenceForbidden ==
    IsUpdatePost =>
        /\ ProxyEntries # {} =>
              /\ upstreamLog[1].kind = "getSilence"
              /\ upstreamLog[1].id = req.body.sil.id
              /\ ~ fetched.err
        /\ (/\ pc \in {"forwarded", "done"}
            /\ ~ fetched.err
            /\ ~ TenantMatcherIn(fetched.sil.matchers, lvalues))
           => (ProxyEntries = {} /\ resp.status = StatusForbidden)

C3_Witness ==
    /\ IsUpdatePost
    /\ pc = "done"
    /\ ~ fetched.err
    /\ fetched.sil.matchers # <<>>
    /\ ~ TenantMatcherIn(fetched.sil.matchers, lvalues)
    /\ resp.status = StatusForbidden

(***************************************************************************)
(* C4.  A DELETE of a silence reaches the upstream only after the silence  *)
(* was fetched and found to carry the tenant matcher; otherwise the answer *)
(* is 403 and no DELETE is sent.                                           *)
(***************************************************************************)
IsSilenceDelete(r) == r.method = "DELETE" /\ subtree(r.path) = silencePrefix

C4_DeleteOnlyAfterGuard ==
    /\ \A i \in DOMAIN upstreamLog :
          (upstreamLog[i].kind = "proxy" /\ IsSilenceDelete(upstreamLog[i].req)) =>
              /\ \E j \in 1..(i - 1) :
                    /\ upstreamLog[j].kind = "getSilence"
                    /\ upstreamLog[j].id = silID(upstreamLog[i].req.path)
              /\ ~ fetched.err
              /\ TenantMatcherIn(fetched.sil.matchers, lvalues)
    /\ (/\ IsSilenceDelete(req)
        /\ pc \in {"forwarded", "done"}
        /\ ~ fetched.err
        /\ ~ TenantMatcherIn(fetched.sil.matchers, lvalues))
       => (ProxyEntries = {} /\ resp.status = StatusForbidden)

C4_Witness ==
    /\ IsSilenceDelete(req)
    /\ pc = "forwarded"
    /\ Len(upstreamLog) = 2
    /\ upstreamLog[1].kind = "getSilence"
    /\ upstreamLog[2].req.method = "DELETE"

(***************************************************************************)
(* C5.  A request to an enforced endpoint that names no tenant, or names   *)
(* an empty tenant value, is answered 400 with the proxy's error envelope  *)
(* and nothing is sent upstream.                                           *)
(***************************************************************************)
C5_MissingTenantIs400 ==
    (/\ cfg.mode = ModeForm
     /\ pc # "received"
     /\ KnownPath(cfg, req) /\ MethodAllowed(cfg, req)
     /\ TenantMissing(req))
    => /\ upstreamLog = <<>>
       /\ resp = Response(StatusBadRequest, "envelope", NoData)

(***************************************************************************)
(* C6.  A request on an unknown path, or with a method the path does not   *)
(* allow, is answered 404 and never forwarded.                             *)
(***************************************************************************)
C6_UnknownRouteIs404 ==
    (/\ pc # "received"
     /\ ~ (KnownPath(cfg, req) /\ MethodAllowed(cfg, req)))
    => /\ upstreamLog = <<>>
       /\ resp.status = StatusNotFound

(***************************************************************************)
(* C7.  In form mode no forwarded request holds the tenant parameter in    *)
(* its query string.                                                       *)
(***************************************************************************)
C7_TenantParameterRemoved ==
    cfg.mode = ModeForm => \A e \in ProxyEntries : e.req.tenant = <<>>

(***************************************************************************)
(* C8.  In static mode the configured values are the ones enforced: the    *)
(* label value a client puts in the URL query changes neither the values   *)
(* of the context nor the matcher put into the forwarded selectors.        *)
(***************************************************************************)
StaticMatcher == Matcher(proxyLabel, MatchEqual, cfg.staticValues[1])

RequestValues == IF cfg.mode = ModeStatic THEN cfg.staticValues ELSE <<Get(req.tenant)>>

QueryRewriteFails ==
    /\ req.path \in QueryPaths
    /\ KnownPath(cfg, req) /\ MethodAllowed(cfg, req)
    /\ Get(RequestValues) # ""
    /\ Enforce(NewPromQLEnforcer(cfg.errorOnReplace,
                                 (proxyLabel :> labelMatcher(RequestValues))),
               FormText(FormValues(req, req.query, req.body.query)),
               <<proxyLabel>>).err # ErrNone

C9_RewriteFailureIs400 ==
    (pc # "received" /\ QueryRewriteFails)
    => /\ upstreamLog = <<>>
       /\ resp = Response(StatusBadRequest, "envelope", NoData)

(***************************************************************************)
(* C10.  With errorOnReplace, a selector holding a matcher on an enforced  *)
(* label name whose operator or value differs from the enforced matcher is *)
(* refused with ErrIllegalLabelMatcher.                                    *)
(***************************************************************************)
DiffersFromEnforced(t) ==
    /\ t.name \in DOMAIN enforcer.labelMatchers
    /\ <<t.type, t.value>> # <<enforcer.labelMatchers[t.name].type,
                               enforcer.labelMatchers[t.name].value>>

NamedLike(ms, n) == SeqFilter(ms, [i \in DOMAIN ms |-> ms[i].name = n])

EnforcedEqualNames ==
    {n \in DOMAIN enforcer.labelMatchers : enforcer.labelMatchers[n].type = MatchEqual}

C11_EqualEnforcedReplaces ==
    (enforced # NotRun /\ ~ enforcer.errorOnReplace)
    => /\ enforced.err = ErrNone
       /\ \A n \in EnforcedEqualNames :
             NamedLike(enforced.res, n) = <<enforcer.labelMatchers[n]>>

C11_Witness ==
    /\ enforced # NotRun
    /\ ~ enforcer.errorOnReplace
    /\ \E n \in EnforcedEqualNames :
          /\ Len(NamedLike(targets, n)) = 2
          /\ \A i \in DOMAIN targets : targets[i] # enforcer.labelMatchers[n]
          /\ NamedLike(enforced.res, n) = <<enforcer.labelMatchers[n]>>

(***************************************************************************)
(* C12.  When the enforced matcher's operator is not = (and errorOnReplace *)
(* does not refuse the selector), the existing matchers on its label name  *)
(* are kept and the enforced matcher is appended: both are in the result.  *)
(***************************************************************************)
ErrorOnReplaceRefuses ==
    enforcer.errorOnReplace /\ \E i \in DOMAIN targets : DiffersFromEnforced(targets[i])

EnforcedOtherNames == (DOMAIN enforcer.labelMatchers) \ EnforcedEqualNames

C14_EnforceIsIdempotent ==
    rewrittenAgain # NotRewritten
    => /\ rewrittenAgain.err = ErrNone
       /\ rewrittenAgain.text = rewritten.text

(***************************************************************************)
(* The tenant values a request asks for, and the matcher that selects them.*)
(***************************************************************************)
\* V(R): every value of the tenant parameter, or the configured values
TenantSet == IF cfg.mode = ModeStatic THEN cfg.staticValues ELSE req.tenant

\* the operator that selects the values V: =~ for several, = for one
TenantOp(V) == IF Len(V) > 1 THEN MatchRegexp ELSE MatchEqual

\* m selects exactly the values V on the label
SelectsTenants(m, V) ==
    /\ m.name = proxyLabel
    /\ m.value = joinMultipleLabelValues(V)
    /\ m.type \in {TenantOp(V), MatchRegexp}

(***************************************************************************)
(* C13.  On the query endpoints a matcher on the label in the client's     *)
(* expression never reaches the upstream: in every forwarded selector the  *)
(* only matcher on the label is the enforced one, which selects all the    *)
(* tenant values of the request (=~ "default|second" for two values).      *)
(***************************************************************************)
C13_OnlyEnforcedMatcherOnLabel ==
    \A e \in ProxyEntries :
        (e.req.path \in QueryPaths /\ ~ TenantMissing([req EXCEPT !.tenant = TenantSet]))
        => \A t \in Range(e.req.query) : \A ms \in Selectors(t) :
              /\ Len(NamedLike(ms, proxyLabel)) = 1
              /\ SelectsTenants(NamedLike(ms, proxyLabel)[1], TenantSet)

(***************************************************************************)
(* C15.  On the match[] endpoints every selector of the client is          *)
(* forwarded with the enforced matcher appended; when the client sends no  *)
(* match[], one selector holding only the enforced matcher is forwarded.   *)
(***************************************************************************)
C15_MatchSelectorsExtended ==
    \A e \in ProxyEntries :
        (e.req.path \in MatchPaths /\ ~ TenantMissing([req EXCEPT !.tenant = TenantSet]))
        => IF req.match = <<>>
           THEN /\ Len(e.req.match) = 1
                /\ Len(e.req.match[1].matchers) = 1
                /\ SelectsTenants(e.req.match[1].matchers[1], TenantSet)
           ELSE /\ Len(e.req.match) = Len(req.match)
                /\ \A i \in {j \in DOMAIN req.match : req.match[j].kind = "Selector"} :
                      LET sent == e.req.match[i].matchers
                          given == req.match[i].matchers
                      IN /\ Len(sent) = Len(given) + 1
                         /\ SubSeq(sent, 1, Len(given)) = given
                         /\ SelectsTenants(sent[Len(sent)], TenantSet)

(***************************************************************************)
(* C16.  For a GET on /api/v2/silences, /api/v2/alerts and                 *)
(* /api/v2/alerts/groups every filter of the client on the label is        *)
(* dropped and one filter label<op>"join(V)" is added, <op> being =~ for   *)
(* several values and = for one; the other filters are forwarded as sent.  *)
(***************************************************************************)
OtherThan(ms, n) == SeqFilter(ms, [i \in DOMAIN ms |-> ms[i].name # n])

C16_FilterRewritten ==
    \A e \in ProxyEntries :
        (/\ e.req.path \in FilterPaths
         /\ e.req.method = "GET"
         /\ ~ TenantMissing([req EXCEPT !.tenant = TenantSet]))
        => /\ OtherThan(e.req.filter, proxyLabel) = OtherThan(req.filter, proxyLabel)
           /\ NamedLike(e.req.filter, proxyLabel)
                = <<Matcher(proxyLabel, TenantOp(TenantSet),
                            joinMultipleLabelValues(TenantSet))>>

(***************************************************************************)
(* C17.  In the response to /api/v1/rules returned to the client a rule is *)
(* kept if and only if its labels hold the label with a value of the       *)
(* tenant set, and a group is kept if and only if one of its rules is.     *)
(***************************************************************************)
RuleOfTenants(rl, V) == \E i \in DOMAIN V : hasLabel(rl.labels, proxyLabel, V[i])

ExpectedGroups(gs, V) ==
    LET cut == [i \in DOMAIN gs |->
                  [gs[i] EXCEPT !.rules =
                      SeqFilter(@, [j \in DOMAIN @ |-> RuleOfTenants(@[j], V)])]]
    IN SeqFilter(cut, [i \in DOMAIN cut |-> cut[i].rules # <<>>])

\* the upstream answered /api/v1/rules with 200 and well-formed groups
RulesAnswered ==
    /\ pc = "done"
    /\ ProxyEntries # {}
    /\ req.path = "/api/v1/rules"
    /\ upstreamResp.status = StatusOK
    /\ upstreamResp.body.kind = "api"
    /\ upstreamResp.body.status = "success"
    /\ upstreamResp.body.data.kind = "rules"
    /\ \A rl \in Entities(upstreamResp.body.data) : validRule(rl)

C17_RulesKeptIffTenant ==
    (RulesAnswered /\ ~ TenantMissing([req EXCEPT !.tenant = TenantSet]))
    => /\ resp.status = StatusOK
       /\ resp.kind = "api"
       /\ resp.data.data = RulesData(ExpectedGroups(upstreamResp.body.data.groups, TenantSet))

(***************************************************************************)
(* C18.  The silences returned for GET /api/v2/silences are exactly the    *)
(* upstream silences whose matchers hold a matcher on the label that is a  *)
(* regex matcher with the joined tenant values as its value.               *)
(***************************************************************************)
HoldsTenantMatcher(sil, lv) ==
    \E i \in DOMAIN sil.matchers :
        /\ sil.matchers[i].name = proxyLabel
        /\ sil.matchers[i].isRegex
        /\ sil.matchers[i].value = joinMultipleLabelValues(lv)

C18_SilencesKeptIffTenantMatcher ==
    filteredSilences.run
    => filteredSilences.silences
         = SeqFilter(upstreamSilences,
                     [i \in DOMAIN upstreamSilences |->
                         HoldsTenantMatcher(upstreamSilences[i], lvalues)])

(***************************************************************************)
(* C19.  On a silence POST the matcher {name: label, value: join(V),       *)
(* isRegex: true, isEqual: true} is put in front of the submitted matchers *)
(* and every submitted matcher is forwarded unchanged after it.            *)
(***************************************************************************)
IsSilencePost(r) ==
    r.method = "POST" /\ r.path = "/api/v2/silences" /\ r.body.kind = "json"

C19_TenantMatcherPrepended ==
    \A e \in ProxyEntries :
        (IsSilencePost(req) /\ IsSilencePost(e.req))
        => e.req.body.sil.matchers
             = <<[name |-> proxyLabel, value |-> joinMultipleLabelValues(lvalues),
                  isRegex |-> TRUE, isEqual |-> BoolPtr(TRUE)]>>
               \o req.body.sil.matchers

(***************************************************************************)
(* C20.  A silence POST that reaches the injection of the tenant matcher   *)
(* and then holds fewer than two matchers is answered 400, and nothing is  *)
(* forwarded upstream.                                                     *)
(***************************************************************************)
\* the handler gets as far as the injection: the label value is there and,
\* for an update, the guard let the request through
ReachesInjection ==
    /\ IsSilencePost(req)
    /\ cfg.rev = RevMux
    /\ Get(TenantSet) # ""
    /\ pc = "done"
    /\ req.body.sil.id # "" =>
          (~ fetched.err /\ hasMatcherForLabel(fetched.sil.matchers, proxyLabel, lvalues))

C20_TooFewMatchersIs400 ==
    (ReachesInjection /\ Len(req.body.sil.matchers) + 1 < 2)
    => /\ resp.status = StatusBadRequest
       /\ ProxyEntries = {}

C20_Witness ==
    /\ ReachesInjection
    /\ req.body.sil.id # ""
    /\ req.body.sil.matchers = <<>>
    /\ resp.status = StatusBadRequest
    /\ Len(upstreamLog) = 1

(***************************************************************************)
(* C21.  A silence write (POST /api/v2/silences) or delete (DELETE         *)
(* /api/v2/silence/<id>) for which more than one tenant value is given is  *)
(* answered 422 Unprocessable Entity and nothing is sent upstream.         *)
(***************************************************************************)
IsSilenceWriteOrDelete(r) ==
    \/ r.method = "POST" /\ r.path = "/api/v2/silences"
    \/ IsSilenceDelete(r)

C21_SeveralValuesOnSilenceWriteIs422 ==
    (/\ pc # "received"
     /\ cfg.rev = RevMux
     /\ IsSilenceWriteOrDelete(req)
     /\ Len(TenantSet) > 1
     /\ ~ TenantMissing([req EXCEPT !.tenant = TenantSet]))
    => /\ resp.status = StatusUnprocessableEntity
       /\ upstreamLog = <<>>

(***************************************************************************)
(* The endpoints whose responses the proxy filters.                        *)
(***************************************************************************)
IsFilteredEndpoint(r) ==
    \/ r.path \in FilteredPaths
    \/ r.method = "GET" /\ r.path = "/api/v2/silences"

\* the upstream has answered the forwarded request of a filtered endpoint
FilteredEndpointAnswered ==
    /\ pc = "done"
    /\ ProxyEntries # {}
    /\ upstreamResp # NoUpstreamResponse
    /\ IsFilteredEndpoint(req)

\* the body does not decode to what the endpoint returns
NotValidFor(r, body) ==
    \/ body.kind # "api"
    \/ r.path = "/api/v1/rules" /\ body.data.kind # "rules"
    \/ r.path = "/api/v1/rules" /\ \E rl \in Entities(body.data) : ~ validRule(rl)
    \/ r.path = "/api/v1/alerts" /\ body.data.kind # "alerts"

(***************************************************************************)
(* C22.  When the upstream answers 200 on a filtered endpoint with a body  *)
(* that is not valid JSON for the endpoint, the client gets 502 Bad        *)
(* Gateway and not the body of the upstream.                               *)
(***************************************************************************)
C22_UndecodableBodyIs502 ==
    (/\ FilteredEndpointAnswered
     /\ upstreamResp.status = StatusOK
     /\ NotValidFor(req, upstreamResp.body))
    => /\ resp.status = StatusBadGateway
       /\ resp.kind # "upstream"

(***************************************************************************)
(* C23.  On a filtered endpoint a response of the upstream whose status is *)
(* not 200 is returned to the client as it is: same status, same body.     *)
(***************************************************************************)
C23_Non200PassedUnchanged ==
    (FilteredEndpointAnswered /\ upstreamResp.status # StatusOK)
    => /\ resp.status = upstreamResp.status
       /\ resp.kind = "upstream"
       /\ resp.data = upstreamResp.body
       /\ resp.contentLength = upstreamResp.contentLength

C23_Witness ==
    /\ FilteredEndpointAnswered
    /\ req.path = "/api/v1/rules"
    /\ outboundPath(cfg, forwardedRequest) = "/api/v1/rules"
    /\ upstreamResp.status = StatusInternalServerError
    /\ upstreamResp.body.kind = "api"
    /\ upstreamResp.body.status = "success"
    /\ Entities(upstreamResp.body.data) # {}
    /\ resp.status = StatusInternalServerError
    /\ resp.data = upstreamResp.body

(***************************************************************************)
(* C24.  Whenever the proxy replaces a body, the Content-Length of the     *)
(* message is the byte length of the new body: for the filtered response   *)
(* returned to the client and for the silence POST sent upstream.          *)
(***************************************************************************)
C24_ContentLengthIsBodyLength ==
    /\ (pc = "done" /\ resp.kind = "api") => resp.contentLength = bodyLen(resp.data)
    /\ \A e \in ProxyEntries :
          (IsSilencePost(e.req) /\ e.req.body # req.body)
          => e.req.contentLength = bodyLen(e.req.body)

\* the filter has removed something: the new body is shorter than the old
C24_Witness ==
    /\ pc = "done"
    /\ resp.kind = "api"
    /\ resp.data # upstreamResp.body
    /\ resp.contentLength # upstreamResp.contentLength
    /\ resp.contentLength = bodyLen(resp.data)

(***************************************************************************)
(* C25.  The construction of the routes fails whenever an entry of the     *)
(* passthrough list does not start with "/", is "" or "/", holds a query   *)
(* string, repeats another entry or shadows an enforced route; so with an  *)
(* accepted list every enforced endpoint, and every path below one, is     *)
(* served by its enforced handler and never by the passthrough handler.    *)
(***************************************************************************)
EntryRefused(i) ==
    LET e == passthroughPaths[i] IN
    \/ ~ e.lead
    \/ e.segs = <<>>
    \/ e.query
    \/ \E j \in DOMAIN passthroughPaths : j # i /\ passthroughPaths[j].segs = e.segs
    \/ \E r \in enforcedPaths : IsPrefix(r, e.segs)

\* the enforced endpoints and a path below each of them
EnforcedEndpoints == enforcedPaths \cup {r \o <<"some">> : r \in enforcedPaths}

C25_BadPassthroughListRefused ==
    built.run
    => /\ (\E i \in DOMAIN passthroughPaths : EntryRefused(i)) => built.err
       /\ ~ built.err =>
             \A path \in EnforcedEndpoints : dispatch(built.patterns, path) = {"enforced"}

\* an accepted list with an entry above enforced routes: "/api" or "/api/v1"
C25_Witness ==
    /\ built.run
    /\ ~ built.err
    /\ Len(passthroughPaths) = MaxPassthrough
    /\ \E i \in DOMAIN passthroughPaths :
          \E r \in enforcedPaths : IsPrefix(passthroughPaths[i].segs, r)
    /\ dispatch(built.patterns, <<"api", "v1", "query">>) = {"enforced"}
    /\ dispatch(built.patterns, <<"api", "v1", "status">>) = {"passthrough"}

(***************************************************************************)
(* What a matcher selects.  The regular expressions of the model are "a",  *)
(* "x" and the alternation "a|b"; they are anchored at both ends.          *)
(***************************************************************************)
RegexpMatches(re, v) == IF re = "a|b" THEN v \in {"a", "b"} ELSE v = re

\* labels.Matcher.Matches
Matches(m, v) ==
    CASE m.type = MatchEqual -> v = m.value
      [] m.type = MatchNotEqual -> v # m.value
      [] m.type = MatchRegexp -> RegexpMatches(m.value, v)
      [] m.type = MatchNotRegexp -> ~ RegexpMatches(m.value, v)

(***************************************************************************)
(* C26.  With errorOnReplace and enforced matchers L="v", enforcement      *)
(* fails with ErrIllegalLabelMatcher exactly when the selector holds a     *)
(* matcher on L that does not match the value v; when every matcher on L   *)
(* matches v (L!="w", L=~"v|w") it succeeds and the only matcher left on L *)
(* is L="v".                                                               *)
(***************************************************************************)
ExcludesEnforcedValue(t) ==
    /\ t.name \in DOMAIN enforcer.labelMatchers
    /\ ~ Matches(t, enforcer.labelMatchers[t.name].value)

C26_RefusedIffValueExcluded ==
    (/\ enforced # NotRun
     /\ enforcer.errorOnReplace
     /\ EnforcedOtherNames = {})
    => IF \E i \in DOMAIN targets : ExcludesEnforcedValue(targets[i])
       THEN enforced.err = ErrIllegalLabelMatcher
       ELSE /\ enforced.err = ErrNone
            /\ \A n \in EnforcedEqualNames :
                  NamedLike(enforced.res, n) = <<enforcer.labelMatchers[n]>>

(***************************************************************************)
(* C29.  The decision of the silence guard does not depend on the order of *)
(* the matchers of the silence: the silence is accepted when any of its    *)
(* matchers on the label is the regex matcher with the joined tenant       *)
(* values, and refused (403) only when none is.                            *)
(***************************************************************************)
\* the guard has fetched the silence and decided
GuardDecided ==
    /\ IsUpdatePost \/ IsSilenceDelete(req)
    /\ pc \in {"forwarded", "done"}
    /\ ~ fetched.err

C29_GuardIgnoresMatcherOrder ==
    GuardDecided
    => (resp.status = StatusForbidden <=> ~ HoldsTenantMatcher(fetched.sil, lvalues))

(***************************************************************************)
(* C27.  Requests are handled independently: whatever the interleaving     *)
(* with another request, the request forwarded for a client and the        *)
(* response returned to it are the ones its own tenant values give; the    *)
(* enforced matcher and the kept rules carry a value of its own.           *)
(***************************************************************************)
\* the tenant values of the request itself
OwnValues(h) == <<Get(h.req.tenant)>>

\* what the request forwards when it is served alone
ForwardedAlone(h) == Serve(cfg, h.req).req

C27_RequestsAreIndependent ==
    \A i \in DOMAIN inflight :
        LET h == inflight[i] IN
        /\ h.pc \in {"routed", "forwarded"} => h.lvalues = OwnValues(h)
        /\ h.sent # NoRequest =>
              /\ h.sent = ForwardedAlone(h)
              /\ \A t \in Range(h.sent.query) : \A ms \in Selectors(t) :
                    \A k \in DOMAIN ms :
                        ms[k].name = proxyLabel => ms[k].value \in Range(h.req.tenant)
        /\ h.upstreamResp # NoUpstreamResponse =>
              /\ h.resp = ModifyResponse(cfg, h.sent, h.upstreamResp, OwnValues(h))
              /\ (h.resp.kind = "api") =>
                    \A ent \in Entities(h.resp.data.data) :
                        \E k \in DOMAIN h.req.tenant :
                            hasLabel(ent.labels, proxyLabel, h.req.tenant[k])

\* two rules requests of different tenants, each answered with its own rules
C27_Witness ==
    /\ inflight # <<>>
    /\ inflight[1].req.tenant = <<"t1">>
    /\ inflight[2].req.tenant = <<"t2">>
    /\ \A i \in DOMAIN inflight :
          /\ inflight[i].pc = "done"
          /\ inflight[i].resp.kind = "api"
          /\ Entities(inflight[i].resp.data.data)
                = {Rule("recording", <<Label(proxyLabel, inflight[i].req.tenant[1])>>)}

GuardedWriteApplied ==
    /\ GuardDecided
    /\ pc = "done"
    /\ \E e \in ProxyEntries : e.req.method \in {"POST", "DELETE"}

C30_WrittenSilenceBelongsToTenant ==
    GuardedWriteApplied
    => hasMatcherForLabel(silenceStore[pending.id].matchers, proxyLabel, lvalues)

====
